---- MODULE Spec2Model ----
(***************************************************************************)
(* Model of a10.py: the Lamborghini chatbot.  A string is a sequence of    *)
(* pieces; a piece is a word (an atomic run of non-blank characters) or    *)
(* one of the separator characters " ", "/" and ",".                       *)
(***************************************************************************)
EXTENDS Integers, Sequences, FiniteSets, TLC

VARIABLES soup, model_info, pc, query, invoked, out, warned, stop, escaped

vars == <<soup, model_info, pc, query, invoked, out, warned, stop, escaped>>

-----------------------------------------------------------------------------
(* Bounds of the model *)

MaxLineLen == 2
MaxModelLen == 2
MaxTables == 2
MaxRows == 2

-----------------------------------------------------------------------------
(* Strings *)

Range(s) == {s[i] : i \in 1..Len(s)}

SeqsUpTo(S, n) == UNION {[1..k -> S] : k \in 0..n}

Min(S) == CHOOSE x \in S : \A y \in S : x <= y

Max(S) == CHOOSE x \in S : \A y \in S : y <= x

\* str.lower() on one piece
LowerPiece(p) ==
    CASE p = "Model" -> "model"
      [] p = "MODEL" -> "model"
      [] p = "Duration of production" -> "duration of production"
      [] p = "Engine" -> "engine"
      [] p = "Top speed" -> "top speed"
      [] p = "Year" -> "year"
      [] p = "Urus" -> "urus"
      [] p = "URUS" -> "urus"
      [] p = "Evo" -> "evo"
      [] p = "EVO" -> "evo"
      [] p = "Aventador" -> "aventador"
      [] p = "Huracan" -> "huracan"
      [] p = "Bye" -> "bye"
      [] p = "BYE" -> "bye"
      [] p = "V12" -> "v12"
      [] p = "V8" -> "v8"
      [] OTHER -> p

\* str.lower()
Lower(s) == [i \in 1..Len(s) |-> LowerPiece(s[i])]

\* str.title() on one piece of an already lowercased string
TitlePiece(p) ==
    CASE p = "urus" -> "Urus"
      [] p = "evo" -> "Evo"
      [] p = "aventador" -> "Aventador"
      [] p = "huracan" -> "Huracan"
      [] p = "ferrari" -> "Ferrari"
      [] p = "bye" -> "Bye"
      [] p = "top" -> "Top"
      [] p = "speed" -> "Speed"
      [] p = "of" -> "Of"
      [] p = "engine" -> "Engine"
      [] p = "production" -> "Production"
      [] OTHER -> p

\* str.title()
Title(s) == [i \in 1..Len(s) |-> TitlePiece(s[i])]

\* str.strip(): drop the leading and the trailing blanks
RECURSIVE Strip(_)
Strip(s) ==
    IF s = <<>> THEN <<>>
    ELSE IF Head(s) = " " THEN Strip(Tail(s))
    ELSE IF s[Len(s)] = " " THEN Strip(SubSeq(s, 1, Len(s) - 1))
    ELSE s

\* " ".join(words)
RECURSIVE JoinSp(_)
JoinSp(ws) ==
    IF ws = <<>> THEN <<>>
    ELSE IF Len(ws) = 1 THEN Head(ws)
    ELSE Head(ws) \o <<" ">> \o JoinSp(Tail(ws))

\* re.split(r",|/", s): the pieces between the separators, empty ones kept
RECURSIVE SplitAcc(_, _)
SplitAcc(s, cur) ==
    IF s = <<>> THEN <<cur>>
    ELSE IF Head(s) \in {",", "/"} THEN <<cur>> \o SplitAcc(Tail(s), <<>>)
    ELSE SplitAcc(Tail(s), Append(cur, Head(s)))

SplitModels(s) == SplitAcc(s, <<>>)

-----------------------------------------------------------------------------
(* match (module match, imported at line 5): a literal token matches the    *)
(* same token; the wildcard "%" takes one or more tokens, the shortest run  *)
(* after which the rest of the template matches the rest of the query; the  *)
(* whole query must be consumed.  A captured run is returned as one string, *)
(* its tokens joined by blanks.                                             *)

NoMatch == [ok |-> FALSE, spans |-> <<>>]

SpanText(tokens) == JoinSp([i \in 1..Len(tokens) |-> <<tokens[i]>>])

RECURSIVE match(_, _)
match(pattern, source) ==
    IF pattern = <<>>
    THEN IF source = <<>> THEN [ok |-> TRUE, spans |-> <<>>] ELSE NoMatch
    ELSE IF Head(pattern) = "%"
    THEN LET rest(k) == match(Tail(pattern), SubSeq(source, k + 1, Len(source)))
             fits == {k \in 1..Len(source) : rest(k).ok}
         IN IF fits = {} THEN NoMatch
            ELSE [ok |-> TRUE,
                  spans |-> <<SpanText(SubSeq(source, 1, Min(fits)))>>
                            \o rest(Min(fits)).spans]
    ELSE IF source # <<>> /\ Head(source) = Head(pattern)
    THEN match(Tail(pattern), Tail(source))
    ELSE NoMatch

-----------------------------------------------------------------------------
(* Printed lines and call outcomes *)

Line(m, name, v) == [msg |-> m, model |-> name, value |-> v]

Return(ls) == [raised |-> "none", lines |-> ls]

Raise(e, ls) == [raised |-> e, lines |-> ls]

-----------------------------------------------------------------------------
(* Helper functions to retrieve info *)

get_duration(model_name) ==
    LET key == Lower(model_name)
    IN IF key \in DOMAIN model_info
       THEN Return(<<Line("value", <<>>, model_info[key].duration)>>)
       ELSE Raise("AttributeError",
                  <<Line("No production duration info for model", model_name, <<>>)>>)

get_engine(model_name) ==
    LET key == Lower(model_name)
    IN IF key \in DOMAIN model_info
       THEN Return(<<Line("value", <<>>, model_info[key].engine)>>)
       ELSE Raise("AttributeError",
                  <<Line("No engine info for model", model_name, <<>>)>>)

get_top_speed(model_name) ==
    LET key == Lower(model_name)
    IN IF key \in DOMAIN model_info
       THEN Return(<<Line("value", <<>>, model_info[key].top_speed)>>)
       ELSE Raise("AttributeError",
                  <<Line("No top speed info for model", model_name, <<>>)>>)

-----------------------------------------------------------------------------
(* Action functions *)

\* except AttributeError as e: return [str(e)]; anything else propagates
Answer(r, m, model) ==
    IF r.raised = "none"
    THEN Return(<<Line(m, Title(model), r.lines[1].value)>>)
    ELSE IF r.raised = "AttributeError" THEN Return(r.lines)
    ELSE r

duration_action(matches) ==
    LET model == JoinSp(matches)
    IN Answer(get_duration(model), "The production duration of ... is", model)

engine_action(matches) ==
    LET model == JoinSp(matches)
    IN Answer(get_engine(model), "The engine type of ... is", model)

top_speed_action_no_except(matches) ==
    LET model == JoinSp(matches)
        r == get_top_speed(model)
    IN IF r.raised = "none"
       THEN Return(<<Line("The top speed of ... is", Title(model), r.lines[1].value)>>)
       ELSE r

top_speed_action(matches) ==
    LET model == JoinSp(matches)
    IN Answer(get_top_speed(model), "The top speed of ... is", model)

model_help_action_always_help(matches) ==
    LET model == JoinSp(matches)
    IN Return(<<Line("Ask me about the production duration, engine type, or top speed of",
                     Title(model), <<>>)>>)

model_help_action(matches) ==
    LET model == JoinSp(matches)
        key == Lower(model)
    IN IF key \in DOMAIN model_info
       THEN Return(<<Line("Ask me about the production duration, engine type, or top speed of",
                          Title(model), <<>>)>>)
       ELSE Return(<<Line("No information found for model ... Try another Lamborghini model.",
                          Title(model), <<>>)>>)

bye_action(dummy) == Raise("KeyboardInterrupt", <<>>)

-----------------------------------------------------------------------------
(* Patterns and actions *)

PA(p, a) == [pat |-> p, act |-> a]

pa_list ==
    << PA(<<"what", "is", "the", "production", "duration", "of", "%">>, "duration_action"),
       PA(<<"how", "long", "was", "%", "produced">>, "duration_action"),
       PA(<<"when", "was", "%", "produced">>, "duration_action"),
       PA(<<"production", "duration", "of", "%">>, "duration_action"),
       PA(<<"what", "is", "the", "engine", "type", "of", "%">>, "engine_action"),
       PA(<<"tell", "me", "the", "engine", "of", "%">>, "engine_action"),
       PA(<<"engine", "type", "of", "%">>, "engine_action"),
       PA(<<"engine", "of", "%">>, "engine_action"),
       PA(<<"what", "is", "the", "top", "speed", "of", "%">>, "top_speed_action"),
       PA(<<"tell", "me", "the", "top", "speed", "of", "%">>, "top_speed_action"),
       PA(<<"top", "speed", "of", "%">>, "top_speed_action"),
       PA(<<"%">>, "model_help_action"),
       PA(<<"%", "production">>, "duration_action"),
       PA(<<"%", "engine">>, "engine_action"),
       PA(<<"%", "top", "speed">>, "top_speed_action"),
       PA(<<"bye">>, "bye_action") >>

\* act(mat)
Call(act, mat) ==
    CASE act = "duration_action" -> duration_action(mat)
      [] act = "engine_action" -> engine_action(mat)
      [] act = "top_speed_action" -> top_speed_action(mat)
      [] act = "model_help_action" -> model_help_action(mat)
      [] act = "bye_action" -> bye_action(mat)

-----------------------------------------------------------------------------
(* Main matching *)

Fallback ==
    Line("I don't understand. Try asking about production duration, engine type, or top speed of a Lamborghini model.",
         <<>>, <<>>)

NotInvoked == [idx |-> 0, act |-> "none", args |-> <<>>]

\* the for loop of search_pa_list from entry i on; `call` records which
\* handler was invoked with which arguments
RECURSIVE search_from(_, _)
search_from(i, src) ==
    IF i > Len(pa_list)
    THEN [call |-> NotInvoked, raised |-> "none", lines |-> <<Fallback>>]
    ELSE LET mat == match(pa_list[i].pat, src)
         IN IF mat.ok
            THEN LET r == Call(pa_list[i].act, mat.spans)
                 IN [call |-> [idx |-> i, act |-> pa_list[i].act, args |-> mat.spans],
                     raised |-> r.raised, lines |-> r.lines]
            ELSE search_from(i + 1, src)

search_pa_list_last_match(src) ==
    LET hits == {i \in 1..Len(pa_list) : match(pa_list[i].pat, src).ok}
    IN IF hits = {} THEN search_from(Len(pa_list) + 1, src)
       ELSE search_from(Max(hits), src)

search_pa_list(src) == search_from(1, src)

-----------------------------------------------------------------------------
(* Fetch and parse: the soup is the sequence of <table> elements of the    *)
(* page, a table [wikitable, rows], a row a sequence of cells [tag, text]. *)

Cell(t, x) == [tag |-> t, text |-> x]

Record(m, d, e, t) == [model |-> m, duration |-> d, engine |-> e, top_speed |-> t]

EmptyDict == [k \in {} |-> Record(<<>>, <<>>, <<>>, <<>>)]

\* soup.find_all("table", {"class": "wikitable"})
WikiTables(s) == SelectSeq(s, LAMBDA t : t.wikitable)

\* [th.get_text(strip=True).lower() for th in rows[0].find_all("th")]
Headers(row) ==
    LET ths == SelectSeq(row, LAMBDA c : c.tag = "th")
    IN [i \in 1..Len(ths) |-> Lower(Strip(ths[i].text))]

\* headers.index(name), counted from 1; 0 stands for ValueError
IndexOf(headers, name) ==
    LET at == {i \in 1..Len(headers) : headers[i] = name}
    IN IF at = {} THEN 0 ELSE Min(at)

\* model_data[key] = {...}
Store(model_data, key, rec) ==
    [k \in DOMAIN model_data \cup {key} |-> IF k = key THEN rec ELSE model_data[k]]

\* for m in models: model_data[m.lower()] = {...}
RECURSIVE StoreModels(_, _, _, _, _)
StoreModels(model_data, models, duration, engine, top_speed) ==
    IF models = <<>> THEN model_data
    ELSE LET m == Strip(Head(models))
         IN StoreModels(Store(model_data, Lower(m), Record(m, duration, engine, top_speed)),
                        Tail(models), duration, engine, top_speed)

\* the body of "for row in rows[1:]" for one row
ParseRow(model_data, cols, model_idx, duration_idx, engine_idx, top_speed_idx) ==
    IF Len(cols) < Max({model_idx, duration_idx, engine_idx, top_speed_idx})
    THEN model_data
    ELSE StoreModels(model_data,
                     SplitModels(Strip(cols[model_idx].text)),
                     Strip(cols[duration_idx].text),
                     Strip(cols[engine_idx].text),
                     Strip(cols[top_speed_idx].text))

RECURSIVE ParseRows(_, _, _, _, _, _)
ParseRows(model_data, rows, model_idx, duration_idx, engine_idx, top_speed_idx) ==
    IF rows = <<>> THEN model_data
    ELSE ParseRows(ParseRow(model_data, Head(rows),
                            model_idx, duration_idx, engine_idx, top_speed_idx),
                   Tail(rows), model_idx, duration_idx, engine_idx, top_speed_idx)

\* the body of "for table in tables" from the given table on; rows[0] of a
\* table without rows raises IndexError, which nothing catches
RECURSIVE ParseTablesFrom(_, _)
ParseTablesFrom(model_data, tables) ==
    IF tables = <<>> THEN [raised |-> "none", data |-> model_data]
    ELSE LET rows == Head(tables).rows
         IN IF rows = <<>> THEN [raised |-> "IndexError", data |-> EmptyDict]
            ELSE LET headers == Headers(rows[1])
                     model_idx == IndexOf(headers, <<"model">>)
                     duration_idx == IndexOf(headers, <<"duration of production">>)
                     engine_idx == IndexOf(headers, <<"engine">>)
                     top_speed_idx == IndexOf(headers, <<"top speed">>)
                 IN IF 0 \in {model_idx, duration_idx, engine_idx, top_speed_idx}
                    THEN ParseTablesFrom(model_data, Tail(tables))
                    ELSE ParseTablesFrom(
                             ParseRows(model_data, Tail(rows),
                                       model_idx, duration_idx, engine_idx, top_speed_idx),
                             Tail(tables))

parse_lambo_tables(s) == ParseTablesFrom(EmptyDict, WikiTables(s))

-----------------------------------------------------------------------------
(* Input of the interactive loop: a line is the sequence of its blank-      *)
(* separated raw words.                                                     *)

\* word.replace("?", "").lower(); a word of question marks alone leaves nothing
NormWord(w) ==
    CASE w = "?" -> ""
      [] w = "BYE?" -> "bye"
      [] w = "Urus" -> "urus"
      [] w = "speed?" -> "speed"
      [] OTHER -> w

\* input(...).replace("?", "").lower().split()
Normalize(line) ==
    SelectSeq([i \in 1..Len(line) |-> NormWord(line[i])], LAMBDA w : w # "")

Goodbye == Line("Goodbye!", <<>>, <<>>)

PleaseEnter == Line("Please enter a question or model name.", <<>>, <<>>)

Warning == Line("Warning: No Lamborghini model data found!", <<>>, <<>>)

DataLoaded == Line("Data loaded successfully.", <<>>, <<>>)

SampleModels == Line("Some Lamborghini models you can ask about:", <<>>, <<>>)

Welcome == Line("Welcome to the Lamborghini info chatbot!", <<>>, <<>>)

-----------------------------------------------------------------------------
(* Inputs *)

RawWords == {"bye", "BYE?", "?", "Urus", "ferrari", "top", "speed?", "engine"}

ModelWords == {"urus", "evo"}

ModelPhrases == (SeqsUpTo(ModelWords, MaxModelLen) \ {<<>>}) \cup {<<"ferrari">>}

\* a template with its wildcard replaced by the words of a phrase
RECURSIVE Instantiate(_, _)
Instantiate(pat, phrase) ==
    IF pat = <<>> THEN <<>>
    ELSE IF Head(pat) = "%" THEN phrase \o Instantiate(Tail(pat), phrase)
    ELSE <<Head(pat)>> \o Instantiate(Tail(pat), phrase)

TemplateLines ==
    {Instantiate(pa_list[i].pat, ph) : i \in 1..Len(pa_list), ph \in ModelPhrases}

Lines == SeqsUpTo(RawWords, MaxLineLen) \cup TemplateLines

Queries == {Normalize(l) : l \in Lines}

S(w) == <<w>>

HeaderRows ==
    { <<Cell("th", S("Model")), Cell("th", S("Duration of production")),
        Cell("th", S("Engine")), Cell("th", S("Top speed"))>>,
      <<Cell("th", S("Top speed")), Cell("th", <<" ", "Engine">>), Cell("th", S("MODEL")),
        Cell("th", S("Year")), Cell("th", S("Duration of production"))>>,
      <<Cell("th", S("Model")), Cell("th", S("Engine")), Cell("th", S("Top speed"))>> }

ModelCells ==
    { S("Aventador"),
      S("Urus"),
      <<"Urus", " ", "/", " ", "Urus", " ", "EVO", " ">> }

Durations == {S("2011-2021"), S("2018-")}

Engines == {S("V12")}

Speeds == {<<"350", " ", "km/h">>}

\* the text of a header cell as a reader of the table sees it
ColumnName(c) == Lower(Strip(c.text))

\* a data row laid out under a header row: each value in the column that
\* carries its header, a filler in any other column
RowUnder(header, m, d, e, t) ==
    [i \in 1..Len(header) |->
        Cell(IF i = 1 THEN "th" ELSE "td",
             CASE ColumnName(header[i]) = <<"model">> -> m
               [] ColumnName(header[i]) = <<"duration of production">> -> d
               [] ColumnName(header[i]) = <<"engine">> -> e
               [] ColumnName(header[i]) = <<"top speed">> -> t
               [] OTHER -> S("1"))]

DataRows(header) ==
    {RowUnder(header, m, d, e, t) :
        m \in ModelCells, d \in Durations, e \in Engines, t \in Speeds}
    \cup {<<Cell("th", S("Urus"))>>}

Table(w, rs) == [wikitable |-> w, rows |-> rs]

TablesUpTo(maxRows) ==
    UNION {{Table(TRUE, <<h>> \o rs) : rs \in SeqsUpTo(DataRows(h), maxRows)} :
              h \in HeaderRows}
    \cup {Table(TRUE, <<>>), Table(FALSE, <<>>), Table(TRUE, << <<>> >>)}

SoupsOf(maxTables, maxRows) == SeqsUpTo(TablesUpTo(maxRows), maxTables)

Soups == SoupsOf(MaxTables, MaxRows)

StandardHeader ==
    <<Cell("th", S("Model")), Cell("th", S("Duration of production")),
      Cell("th", S("Engine")), Cell("th", S("Top speed"))>>

\* the pages the interactive loop is run on: one without tables, one whose
\* table lacks a required header, one with two models, one with a table without rows
LoopSoups ==
    { <<>>,
      <<Table(TRUE, <<Tail(StandardHeader)>>)>>,
      <<Table(TRUE, <<StandardHeader,
                      RowUnder(StandardHeader, S("Urus"), S("2018-"), S("V8"),
                               <<"305", " ", "km/h">>),
                      RowUnder(StandardHeader, <<"Urus", " ", "EVO">>, S("2018-"), S("V8"),
                               <<"305", " ", "km/h">>)>>)>>,
      <<Table(TRUE, <<>>)>> }

Keys == {S("urus"), <<"urus", " ", "evo">>, S("aventador")}

ModelInfos ==
    {[k \in K |-> Record(Title(k), S("2018-"), S("V8"), <<"305", " ", "km/h">>)] :
        K \in SUBSET Keys}

-----------------------------------------------------------------------------
(* The program: module start-up from the fetched page on (lines 39-92),   *)
(* then query_loop                                                         *)

Start(s) ==
    /\ soup = s
    /\ model_info = EmptyDict
    /\ pc = "parse"
    /\ query = <<>>
    /\ invoked = NotInvoked
    /\ out = <<>>
    /\ warned = FALSE
    /\ stop = "none"
    /\ escaped = "none"

Init == \E s \in LoopSoups : Start(s)

\* line 84: model_info = parse_lambo_tables(soup)
ParseTables ==
    /\ pc = "parse"
    /\ LET r == parse_lambo_tables(soup)
       IN IF r.raised = "none"
          THEN /\ model_info' = r.data
               /\ pc' = "report"
               /\ escaped' = escaped
          ELSE /\ model_info' = model_info
               /\ pc' = "crashed"
               /\ escaped' = r.raised
    /\ UNCHANGED <<soup, query, invoked, out, warned, stop>>

\* lines 86-92: the warning for an empty mapping, then the sample models
StartupReport ==
    /\ pc = "report"
    /\ warned' = (DOMAIN model_info = {})
    /\ out' = (IF DOMAIN model_info = {} THEN <<Warning>> ELSE <<>>) \o <<DataLoaded, SampleModels>>
    /\ pc' = "main"
    /\ UNCHANGED <<soup, model_info, query, invoked, stop, escaped>>

\* lines 214-215 and 198-200: query_loop is entered and prints its banner
EnterLoop ==
    /\ pc = "main"
    /\ out' = <<Welcome>>
    /\ pc' = "prompt"
    /\ UNCHANGED <<soup, model_info, query, invoked, warned, stop, escaped>>

ReadInterrupted_eof_not_caught ==
    /\ pc = "prompt"
    /\ \E e \in {"KeyboardInterrupt", "EOFError"} :
          IF e = "KeyboardInterrupt"
          THEN stop' = e /\ out' = <<Goodbye>> /\ pc' = "done" /\ escaped' = escaped
          ELSE stop' = stop /\ out' = out /\ pc' = "crashed" /\ escaped' = e
    /\ UNCHANGED <<soup, model_info, query, invoked, warned>>

\* line 203 raises KeyboardInterrupt or EOFError; lines 210-212
ReadInterrupted ==
    /\ pc = "prompt"
    /\ \E e \in {"KeyboardInterrupt", "EOFError"} : stop' = e
    /\ out' = <<Goodbye>>
    /\ pc' = "done"
    /\ UNCHANGED <<soup, model_info, query, invoked, warned, escaped>>

\* lines 203-206: a line is read and normalized; an empty query is answered
\* at once
ReadLine ==
    /\ pc = "prompt"
    /\ invoked' = NotInvoked
    /\ \E l \in Lines :
          /\ query' = Normalize(l)
          /\ IF Normalize(l) = <<>>
             THEN out' = <<PleaseEnter>> /\ pc' = "prompt"
             ELSE out' = <<>> /\ pc' = "search"
    /\ UNCHANGED <<soup, model_info, warned, stop, escaped>>

\* lines 207-212: the answers are printed; KeyboardInterrupt and EOFError end
\* the loop, any other exception leaves query_loop
Respond ==
    /\ pc = "search"
    /\ LET r == search_pa_list(query)
       IN /\ invoked' = r.call
          /\ IF r.raised = "none"
             THEN out' = r.lines /\ pc' = "prompt" /\ UNCHANGED <<stop, escaped>>
             ELSE IF r.raised \in {"KeyboardInterrupt", "EOFError"}
             THEN out' = <<Goodbye>> /\ pc' = "done" /\ stop' = r.raised
                  /\ UNCHANGED escaped
             ELSE out' = <<>> /\ pc' = "crashed" /\ escaped' = r.raised
                  /\ UNCHANGED stop
    /\ UNCHANGED <<soup, model_info, query, warned>>

Next ==
    \/ ParseTables
    \/ StartupReport
    \/ EnterLoop
    \/ ReadInterrupted
    \/ ReadLine
    \/ Respond

Spec == Init /\ [][Next]_vars

-----------------------------------------------------------------------------
(* The scraper alone, over every page of the bounded shape *)

InitScrape == \E s \in Soups : Start(s)

NextScrape == ParseTables \/ StartupReport

SpecScrape == InitScrape /\ [][NextScrape]_vars

-----------------------------------------------------------------------------
(* search_pa_list alone, called on every bounded query and mapping *)

InitDispatch ==
    /\ soup = <<>>
    /\ model_info \in ModelInfos
    /\ pc = "call"
    /\ query \in Queries
    /\ invoked = NotInvoked
    /\ out = <<>>
    /\ warned = FALSE
    /\ stop = "none"
    /\ escaped = "none"

CallSearch ==
    /\ pc = "call"
    /\ LET r == search_pa_list(query)
       IN /\ invoked' = r.call
          /\ out' = r.lines
          /\ escaped' = r.raised
    /\ pc' = "returned"
    /\ UNCHANGED <<soup, model_info, query, warned, stop>>

NextDispatch == CallSearch

SpecDispatch == InitDispatch /\ [][NextDispatch]_vars

-----------------------------------------------------------------------------
(* Properties *)

HandlerNames ==
    {"duration_action", "engine_action", "top_speed_action", "model_help_action"}

NotFoundMsgs ==
    {"No production duration info for model", "No engine info for model",
     "No top speed info for model",
     "No information found for model ... Try another Lamborghini model."}

AnswerMsgs ==
    {"The production duration of ... is", "The engine type of ... is",
     "The top speed of ... is",
     "Ask me about the production duration, engine type, or top speed of"}

\* the templates that match a query
Matching(q) == {i \in 1..Len(pa_list) : match(pa_list[i].pat, q).ok}

\* C1: a query of one or more model tokens followed by "top", "speed" is
\* handled by top_speed_action with the model tokens as the captured span,
\* not by model_help_action.
C1_TopSpeedQueryFiresTopSpeed ==
    (/\ pc = "returned"
     /\ Len(query) >= 3
     /\ SubSeq(query, Len(query) - 1, Len(query)) = <<"top", "speed">>)
    => /\ invoked.act = "top_speed_action"
       /\ invoked.args = <<SpanText(SubSeq(query, 1, Len(query) - 2))>>

\* C2: when the line normalizes to the single token "bye", the loop ends in
\* that iteration and prints the goodbye message only.
C2_ByeEndsLoop ==
    [][(pc = "search" /\ query = <<"bye">>) => (pc' = "done" /\ out' = <<Goodbye>>)]_vars

\* C3: every (template, handler) pair of pa_list is reachable: for each index
\* some query makes search_pa_list invoke the handler at that index.
C3_EveryPairReachable ==
    \A i \in 1..Len(pa_list) : \E q \in Queries : search_pa_list(q).call.idx = i

\* C4: search_pa_list invokes exactly the handler of the lowest-index template
\* that matches, with that template's captured spans, and returns the fallback
\* if and only if no template matches.
C4_FirstMatchWins ==
    pc = "returned" =>
        IF Matching(query) = {}
        THEN invoked = NotInvoked /\ out = <<Fallback>> /\ escaped = "none"
        ELSE LET i == Min(Matching(query))
             IN /\ invoked = [idx |-> i, act |-> pa_list[i].act,
                              args |-> match(pa_list[i].pat, query).spans]
                /\ Fallback \notin Range(out)

C4_Witness ==
    /\ pc = "returned"
    /\ Cardinality(Matching(query)) >= 2
    /\ invoked.idx = Min(Matching(query))
    /\ invoked.act = "engine_action"

\* C5: when the captured model name is not a key of model_info, the handler
\* returns a not-found message and no AttributeError leaves search_pa_list.
C5_UnknownModelNotFound ==
    (/\ pc = "returned"
     /\ invoked.act \in HandlerNames
     /\ Lower(JoinSp(invoked.args)) \notin DOMAIN model_info)
    => /\ escaped = "none"
       /\ Len(out) = 1
       /\ out[1].msg \in NotFoundMsgs

C5_Witness ==
    /\ pc = "returned"
    /\ query = <<"top", "speed", "of", "ferrari">>
    /\ model_info # EmptyDict
    /\ out = <<Line("No top speed info for model", <<"ferrari">>, <<>>)>>

\* the column a reader finds a header in, counted from 1; 0 when it is absent
ColumnOf(header, name) ==
    LET at == {i \in 1..Len(header) : ColumnName(header[i]) = name}
    IN IF at = {} THEN 0 ELSE Min(at)

RequiredHeaders ==
    {<<"model">>, <<"duration of production">>, <<"engine">>, <<"top speed">>}

\* a table of the page that carries the four required headers in its first row
HasRequired(t) ==
    /\ t.wikitable
    /\ t.rows # <<>>
    /\ \A h \in RequiredHeaders : ColumnOf(t.rows[1], h) # 0

\* a data row with a cell in each of the four columns
Complete(t, r) == \A h \in RequiredHeaders : Len(r) >= ColumnOf(t.rows[1], h)

CellUnder(t, r, h) == Strip(r[ColumnOf(t.rows[1], h)].text)

\* the record of key k carries the attribute cells of row r
CarriesRow(k, t, r) ==
    /\ k \in DOMAIN model_info
    /\ model_info[k].duration = CellUnder(t, r, <<"duration of production">>)
    /\ model_info[k].engine = CellUnder(t, r, <<"engine">>)
    /\ model_info[k].top_speed = CellUnder(t, r, <<"top speed">>)

\* the variants a model cell lists
Variants(t, r) ==
    LET names == SplitModels(CellUnder(t, r, <<"model">>))
    IN {Strip(names[i]) : i \in 1..Len(names)}

DataRowsOf(t) == {t.rows[j] : j \in 2..Len(t.rows)}

\* C6: every data row with a cell under each of the four headers, whatever the
\* column order, yields a record under its lowercased model name whose
\* duration, engine and top speed are the cells of that row.
C6_RowYieldsRecord ==
    pc # "parse" =>
        \A t \in Range(soup) : HasRequired(t) =>
            \A r \in DataRowsOf(t) :
                (Complete(t, r) /\ Cardinality(Variants(t, r)) = 1)
                => CarriesRow(Lower(CellUnder(t, r, <<"model">>)), t, r)

\* C7: a row whose model cell lists several variants registers each variant
\* under its own trimmed, lowercased key, all with the values of that row.
C7_VariantsShareRow ==
    pc # "parse" =>
        \A t \in Range(soup) : HasRequired(t) =>
            \A r \in DataRowsOf(t) :
                (Complete(t, r) /\ Cardinality(Variants(t, r)) > 1)
                => \A v \in Variants(t, r) : CarriesRow(Lower(v), t, r)

\* the keys of the rows that are not to be skipped
ExpectedKeys ==
    UNION {UNION {{Lower(v) : v \in Variants(t, r)} :
                     r \in {x \in DataRowsOf(t) : Complete(t, x)}} :
              t \in {y \in Range(soup) : HasRequired(y)}}

\* C8: parse_lambo_tables never fails; tables without the required headers
\* (or without rows or header cells) and rows with too few cells contribute
\* nothing, and every other row of the page is in the returned mapping.
C8_ScrapeNeverFails ==
    pc # "parse" =>
        /\ pc # "crashed"
        /\ escaped = "none"
        /\ DOMAIN model_info = ExpectedKeys

C10_LoopEndsOnlyOnSignal ==
    [][/\ pc # "done"
       /\ pc \in {"prompt", "search"}
          => \/ /\ pc' = "done"
                /\ stop' \in {"KeyboardInterrupt", "EOFError"}
                /\ out' = <<Goodbye>>
                /\ escaped' = "none"
             \/ pc = "prompt" /\ pc' = "search"
             \/ /\ pc' = "prompt"
                /\ Len(out') >= 1
                /\ Goodbye \notin Range(out')
                /\ escaped' = "none"]_vars

C10_Witness ==
    /\ pc = "done"
    /\ stop = "EOFError"
    /\ out = <<Goodbye>>
    /\ escaped = "none"
    /\ query = <<"ferrari">>
    /\ invoked.act = "model_help_action"

====
